---- MODULE Spec2Model ----
(***************************************************************************)
(* kissdsp/spatial.py: scm, steering, freefield and rotmat.                *)
(*                                                                         *)
(* Numbers are exact.  A complex number is a Gaussian integer <<re, im>>.  *)
(* An array is a nested sequence, indexed from 1 where numpy indexes from  *)
(* 0, so that its shape is read off with Len as numpy reads .shape.        *)
(***************************************************************************)
EXTENDS Integers, Sequences, FiniteSets, TLC

VARIABLES Xs, Ms, tdoas, frame_size, yaw, pitch, roll, XXs, eig, vs, R, repeated

vars == <<Xs, Ms, tdoas, frame_size, yaw, pitch, roll, XXs, eig, vs, R, repeated>>

\* The caller's arguments: no function of the module assigns to them.
args == <<Xs, Ms, tdoas, frame_size, yaw, pitch, roll>>

(***************************************************************************)
(* Bounds of the model.                                                    *)
(***************************************************************************)
MaxChan == 2
MaxFrames == 2
MaxBins == 2
MaxFrameSize == 4
\* The most ways eigh's unfixed choices (global phase, basis of a repeated
\* eigenvalue) may combine over the bins of a stack the model explores.
MaxEigChoices == 24

(***************************************************************************)
(* Complex arithmetic (numpy's complex dtype, without rounding).           *)
(***************************************************************************)
Cx(re, im) == <<re, im>>
CZero == <<0, 0>>
COne == <<1, 0>>
CAdd(z, w) == <<z[1] + w[1], z[2] + w[2]>>
CMul(z, w) == <<z[1] * w[1] - z[2] * w[2], z[1] * w[2] + z[2] * w[1]>>
CConj(z) == <<z[1], 0 - z[2]>>
CScale(z, m) == <<z[1] * m, z[2] * m>>
CAbs2(z) == z[1] * z[1] + z[2] * z[2]

RECURSIVE CSum(_)
CSum(s) == IF s = <<>> THEN CZero ELSE CAdd(Head(s), CSum(Tail(s)))

Max(a, b) == IF a >= b THEN a ELSE b

\* Python's None, and a value that may be None: <<>> or <<x>>
None == <<>>
Some(x) == <<x>>

(***************************************************************************)
(* numpy array primitives used by scm.                                     *)
(***************************************************************************)
\* An array in memory: numpy computes every entry when it builds the array.
\* (The value is f itself, as a sequence.)
Array(f) == f \o <<>>

\* A.shape of a 3-axis array
Shape3(A) == <<Len(A), Len(A[1]), Len(A[1][1])>>

\* A[:, :, b]
Slice(A, b) == Array([c \in 1..Len(A) |-> Array([f \in 1..Len(A[1]) |-> A[c][f][b]])])

\* np.ones(shape)
Ones(shape) ==
  Array([c \in 1..shape[1] |-> Array([f \in 1..shape[2] |-> Array([b \in 1..shape[3] |-> 1])])])

\* numpy's broadcasting rule for one axis, and the index it reads
BroadcastOK(n, m) == n = m \/ n = 1 \/ m = 1
BIdx(i, n) == IF n = 1 THEN 1 ELSE i

\* X * M for a complex X and a real M, both 2-axis, with broadcasting
MulBroadcast(X, M) ==
  Array([c \in 1..Max(Len(X), Len(M)) |->
    Array([f \in 1..Max(Len(X[1]), Len(M[1])) |->
      CScale(X[BIdx(c, Len(X))][BIdx(f, Len(X[1]))],
             M[BIdx(c, Len(M))][BIdx(f, Len(M[1]))])])])

\* A.conj().T
ConjT(A) == Array([f \in 1..Len(A[1]) |-> Array([c \in 1..Len(A) |-> CConj(A[c][f])])])

\* A @ B
MatMul(A, B) ==
  Array([i \in 1..Len(A) |-> Array([j \in 1..Len(B[1]) |->
    CSum([k \in 1..Len(B) |-> CMul(A[i][k], B[k][j])])])])

(***************************************************************************)
(* scm(Xs, Ms)                                                             *)
(***************************************************************************)
\* MaskedSlice as it would be with X *= M, which writes through the view into Xs.
MaskedSliceInPlace(X, M) ==
  [XM |-> MulBroadcast(X, M), X |-> MulBroadcast(X, M)]

\* XM = X * M: the product is a new array, the view X is left as it is.
MaskedSlice(X, M) ==
  [XM |-> MulBroadcast(X, M), X |-> X]

\* Outer as it would be without the conjugate: XM @ XM.T
OuterNoConj(XM) ==
  MatMul(XM, Array([f \in 1..Len(XM[1]) |-> Array([c \in 1..Len(XM) |-> XM[c][f]])]))

\* XM @ XM.conj().T
Outer(XM) == MatMul(XM, ConjT(XM))

\* The mask scm works with: np.ones(Xs.shape) when Ms is None.
MaskOf(X, M) == IF M = None THEN Ones(Shape3(X)) ELSE M

\* One pass of the loop body for bin b: the exception it raises, if any.
BinError(X, M, b) ==
  LET m == MaskOf(X, M) IN
  IF b > Len(m[1][1]) THEN "IndexError"
  ELSE IF ~(BroadcastOK(Len(X), Len(m)) /\ BroadcastOK(Len(X[1]), Len(m[1])))
       THEN "ValueError"
  ELSE IF Max(Len(X), Len(m)) # Len(X) /\ Max(Len(X), Len(m)) # 1
       THEN "ValueError"
  ELSE "ok"

\* BinValue as it would be with X @ XM.conj().T: the mask is applied to one
\* factor only.
BinValueOneSided(X, M, b) ==
  LET m  == Slice(MaskOf(X, M), b)
      X1 == MulBroadcast(Slice(X, b), Array([c \in 1..Len(m) |-> Array([f \in 1..Len(m[1]) |-> 1])]))
      P  == MatMul(X1, ConjT(MulBroadcast(Slice(X, b), m)))
  IN  Array([i \in 1..Len(X) |-> Array([j \in 1..Len(X) |->
               P[BIdx(i, Len(P))][BIdx(j, Len(P))]])])

\* XXs[bin_index, :, :] = ..., the value stored into the (C, C) slot
BinValue(X, M, b) ==
  LET P == Outer(MaskedSlice(Slice(X, b), Slice(MaskOf(X, M), b)).XM)
  IN  Array([i \in 1..Len(X) |-> Array([j \in 1..Len(X) |->
               P[BIdx(i, Len(P))][BIdx(j, Len(P))]])])

\* Xs after the loop has run over the bins before `done`: bin b of it is
\* whatever the loop body left in the view X = Xs[:, :, b].
XsAfter(X, M, done) ==
  LET left == [b \in 1..(done - 1) |->
                 MaskedSlice(Slice(X, b), Slice(MaskOf(X, M), b)).X]
  IN  Array([c \in 1..Len(X) |-> Array([f \in 1..Len(X[1]) |->
        Array([b \in 1..Len(X[1][1]) |->
          IF b < done THEN left[b][c][f] ELSE X[c][f][b]])])])

\* The whole call: the result, the exception, and the arguments afterwards.
Scm(X, M) ==
  LET B == Len(X[1][1])
      bad == {b \in 1..B : BinError(X, M, b) # "ok"}
      first == CHOOSE b \in bad : \A b2 \in bad : b <= b2
  IN  IF bad # {}
      THEN [err |-> BinError(X, M, first), val |-> <<>>,
            Xs |-> XsAfter(X, M, first), Ms |-> M]
      ELSE [err |-> "ok", val |-> Array([b \in 1..B |-> BinValue(X, M, b)]),
            Xs |-> XsAfter(X, M, B + 1), Ms |-> M]

(***************************************************************************)
(* freefield(tdoas, frame_size)                                            *)
(*                                                                         *)
(* A TDOA is held as an integer q that stands for q * frame_size / 4       *)
(* samples, so that every phase 2*pi*k*tdoa/frame_size is a whole number   *)
(* of quarter turns and exp() of it is a Gaussian integer.                 *)
(***************************************************************************)
\* int(x / 2): Python's int() truncates towards zero
IntHalf(n) == IF n >= 0 THEN n \div 2 ELSE 0 - ((0 - n) \div 2)

\* nb_of_bins = int(frame_size/2)+1
NbOfBins(N) == IntHalf(N) + 1

\* np.exp(-1j * (pi/2) * quarters)
ExpNegJ(quarters) ==
  CASE quarters % 4 = 0 -> <<1, 0>>
    [] quarters % 4 = 1 -> <<0, 0 - 1>>
    [] quarters % 4 = 2 -> <<0 - 1, 0>>
    [] OTHER            -> <<0, 1>>

\* SteerPhase as it would be without the division by frame_size
SteerPhaseNoDiv(k, q, N) == ExpNegJ(k * (q * N))

\* As[k, c] = exp(-1j * 2 pi * ks[k] * tdoas[c] / frame_size), tdoas[c] = q*N/4
SteerPhase(k, q, N) == ExpNegJ((k * (q * N)) \div N)

\* As: one row per bin k = 0 .. nb_of_bins-1 (row b holds k = b-1)
FreeAs(t, N) ==
  Array([b \in 1..NbOfBins(N) |-> Array([c \in 1..Len(t) |-> SteerPhase(b - 1, t[c], N)])])

\* np.expand_dims(As, axis=2) @ np.conj(np.expand_dims(As, axis=1))
Freefield(t, N) ==
  LET As == FreeAs(t, N) IN
  Array([b \in 1..NbOfBins(N) |->
     MatMul(Array([c \in 1..Len(t) |-> <<As[b][c]>>]),
            <<Array([c \in 1..Len(t) |-> CConj(As[b][c])])>>)])

(***************************************************************************)
(* steering(XXs)                                                           *)
(*                                                                         *)
(* A component of an eigenvector is a Gaussian integer times a positive    *)
(* real scale sqrt(n/d): [g |-> <<re, im>>, n |-> n, d |-> d].             *)
(***************************************************************************)
Scaled(g, n, d) == [g |-> g, n |-> n, d |-> d]

\* z1 = z2 as complex numbers
SEq(z1, z2) ==
  /\ CAbs2(z1.g) * z1.n * z2.d = CAbs2(z2.g) * z2.n * z1.d
  /\ LET p == CMul(z1.g, CConj(z2.g)) IN p[2] = 0 /\ p[1] >= 0

\* The components an exactly represented eigenvector may take.
EigVals == {<<0, 0>>, <<1, 0>>, <<0, 1>>, <<0 - 1, 0>>, <<1, 1>>}

\* M @ w for a vector w
MatVec(M, w) == Array([i \in 1..Len(M) |-> CSum([k \in 1..Len(w) |-> CMul(M[i][k], w[k])])])

\* w^H M w and w^H w
Quad(M, w) == CSum([i \in 1..Len(w) |-> CMul(CConj(w[i]), MatVec(M, w)[i])])
Norm2(w) == CSum([i \in 1..Len(w) |-> <<CAbs2(w[i]), 0>>])[1]

\* The determinant of the rows and columns idx (an increasing sequence) of M
RECURSIVE Det(_, _, _)
Det(M, rows, cols) ==
  IF rows = <<>> THEN COne
  ELSE CSum([j \in 1..Len(cols) |->
         CScale(CMul(M[rows[1]][cols[j]],
                     Det(M, Tail(rows), SubSeq(cols, 1, j - 1) \o SubSeq(cols, j + 1, Len(cols)))),
                IF j % 2 = 1 THEN 1 ELSE 0 - 1)])

\* The increasing sequence of the members of a set of indices
RECURSIVE SortedSeq(_)
SortedSeq(S) ==
  IF S = {} THEN <<>>
  ELSE LET m == CHOOSE x \in S : \A y \in S : x <= y IN <<m>> \o SortedSeq(S \ {m})

\* A Hermitian matrix is positive semidefinite iff every principal minor is >= 0.
IsPSD(M) ==
  \A S \in SUBSET (1..Len(M)) :
     S # {} => Det(M, SortedSeq(S), SortedSeq(S))[1] >= 0

\* n*I - d*M and d*M - n*I
Shifted(M, n, d) ==
  Array([i \in 1..Len(M) |-> Array([j \in 1..Len(M) |->
     CAdd(CScale(M[i][j], 0 - d), IF i = j THEN <<n, 0>> ELSE CZero)])])
Negated(M) ==
  Array([i \in 1..Len(M) |-> Array([j \in 1..Len(M) |-> CScale(M[i][j], 0 - 1)])])

\* w is an eigenvector of M: M w = (w^H M w / w^H w) w
IsEigvec(M, w) ==
  LET Mw == MatVec(M, w)
      n2 == Norm2(w)
      q  == CSum([i \in 1..Len(w) |-> CMul(CConj(w[i]), Mw[i])])[1]
  IN  /\ n2 > 0
      /\ \A i \in 1..Len(w) : CScale(Mw[i], n2) = CScale(w[i], q)

\* IsLastEigvec as it would be with [:, :, 0]: the first column of eigh's
\* eigenvectors, the one of the smallest eigenvalue.
IsFirstEigvec(M, w) ==
  IsEigvec(M, w) /\ IsPSD(Negated(Shifted(M, Quad(M, w)[1], Norm2(w))))

\* w spans the last column of np.linalg.eigh(M)[1]: eigh returns the
\* eigenvalues in ascending order, so the last is the largest one.
IsLastEigvec(M, w) ==
  IsEigvec(M, w) /\ IsPSD(Shifted(M, Quad(M, w)[1], Norm2(w)))

\* The vectors eigh(M)[1][:, -1] may be: any unit-norm eigenvector of the
\* largest eigenvalue, with any global phase (LAPACK fixes neither).
EighLast(M) ==
  {Array([c \in 1..Len(M) |-> Scaled(w[c], 1, Norm2(w))]) :
     w \in {x \in [1..Len(M) -> EigVals] : IsLastEigvec(M, x)}}

\* np.exp(1j * np.angle(z)); np.angle(0) is 0
Phasor(z) == IF z.g = CZero THEN Scaled(COne, 1, 1) ELSE Scaled(z.g, 1, CAbs2(z.g))

\* z / p
SDiv(z, p) == Scaled(CMul(z.g, CConj(p.g)), z.n * p.d, z.d * p.n * CAbs2(p.g) * CAbs2(p.g))

\* TileFirst as it would be with vs[:, -1]: the phase reference is the last channel.
TileLast(v) == Array([b \in 1..Len(v) |-> Array([c \in 1..Len(v[b]) |-> v[b][Len(v[b])]])])

\* v0s = np.tile(np.expand_dims(vs[:, 0], axis=1), (1, nb_of_channels))
TileFirst(v) == Array([b \in 1..Len(v) |-> Array([c \in 1..Len(v[b]) |-> v[b][1]])])

\* v / p, entry by entry
DivideAll(v, p) ==
  Array([b \in 1..Len(v) |-> Array([c \in 1..Len(v[b]) |-> SDiv(v[b][c], p[b][c])])])

\* InPlaceDivide as it would be were vs a view of XXs (eigh overwriting its
\* argument), so the in-place division writes into the caller's array.
InPlaceDivideAliased(XX, v, p) ==
  [vs  |-> DivideAll(v, p),
   XXs |-> Array([b \in 1..Len(XX) |-> Array([i \in 1..Len(XX[b]) |->
              [XX[b][i] EXCEPT ![Len(XX[b])] = DivideAll(v, p)[b][i].g]])])]

\* vs /= np.exp(1j * np.angle(v0s)): vs is a view of the array eigh
\* allocated, the division writes there and XXs is not touched.
InPlaceDivide(XX, v, p) ==
  [vs  |-> DivideAll(v, p), XXs |-> XX]

\* np.exp(1j * np.angle(v0s))
Phasors(v0s) ==
  Array([b \in 1..Len(v0s) |-> Array([c \in 1..Len(v0s[b]) |-> Phasor(v0s[b][c])])])

\* The whole call, given what eigh returned in ev.
Steering(XX, ev) == InPlaceDivide(XX, ev, Phasors(TileFirst(ev)))

(***************************************************************************)
(* rotmat(yaw, pitch, roll)                                                *)
(*                                                                         *)
(* An angle is <<q, t>>: q quarter turns plus t times atan(4/3), so that   *)
(* 5*cos and 5*sin are integers.  A matrix entry is held times 125.        *)
(***************************************************************************)
RECURSIVE Turned(_, _)
Turned(cs, q) == IF q = 0 THEN cs ELSE Turned(<<0 - cs[2], cs[1]>>, q - 1)

CosSin5(a) == Turned(IF a[2] = 0 THEN <<5, 0>> ELSE <<3, 4>>, a[1] % 4)
Cos5(a) == CosSin5(a)[1]
Sin5(a) == CosSin5(a)[2]

\* Rotmat as it would be with a sign slip in R[0, 1]
RotmatSignSlip(y, p, r) ==
  LET ca == Cos5(y) sa == Sin5(y) cb == Cos5(p) sb == Sin5(p) cg == Cos5(r) sg == Sin5(r)
  IN  << << 5 * cb * cg, sa * sb * cg + 5 * ca * sg, ca * sb * cg + 5 * sa * sg >>,
         << 5 * cb * sg, sa * sb * sg + 5 * ca * cg, ca * sb * sg - 5 * sa * cg >>,
         << 0 - 25 * sb, 5 * sa * cb,                5 * ca * cb >> >>

\* 125 * R, with alpha = yaw, beta = pitch, gamma = roll
Rotmat(y, p, r) ==
  LET ca == Cos5(y) sa == Sin5(y) cb == Cos5(p) sb == Sin5(p) cg == Cos5(r) sg == Sin5(r)
  IN  << << 5 * cb * cg, sa * sb * cg - 5 * ca * sg, ca * sb * cg + 5 * sa * sg >>,
         << 5 * cb * sg, sa * sb * sg + 5 * ca * cg, ca * sb * sg - 5 * sa * cg >>,
         << 0 - 25 * sb, 5 * sa * cb,                5 * ca * cb >> >>

(***************************************************************************)
(* The inputs a caller may hold.                                           *)
(***************************************************************************)
Shapes == (1..MaxChan) \X (1..MaxFrames) \X (1..MaxBins)

ConstArr(sh, v) ==
  Array([c \in 1..sh[1] |-> Array([f \in 1..sh[2] |-> Array([b \in 1..sh[3] |-> v])])])

RampArr(sh, seq) ==
  Array([c \in 1..sh[1] |-> Array([f \in 1..sh[2] |-> Array([b \in 1..sh[3] |->
     seq[((c + 2 * f + 3 * b) % Len(seq)) + 1]])])])

\* A constant array, and the same with one entry replaced
OneEdit(sh, bg, vals) ==
  {ConstArr(sh, bg)} \cup
  {Array([ConstArr(sh, bg) EXCEPT ![p[1]][p[2]][p[3]] = v]) :
     p \in (1..sh[1]) \X (1..sh[2]) \X (1..sh[3]), v \in vals}

SigVals == {<<0, 0>>, <<1, 0>>, <<0, 1>>, <<0 - 1, 0>>, <<1, 0 - 1>>}
SigRamp == << <<1, 0>>, <<0, 1>>, <<1, 0 - 1>>, <<0 - 1, 0>>, <<0, 0>> >>
MaskVals == {0, 1, 2, 0 - 1}
MaskRamp == <<1, 2, 0, 0 - 1>>

SigGrounds == {<<0, 0>>, <<1, 0>>, <<1, 0 - 1>>}

\* Two identical all-ones channels over 4 frames and 1 bin
ExampleXs == ConstArr(<<2, 4, 1>>, <<1, 0>>)

FewSignals == UNION {{RampArr(sh, SigRamp), ConstArr(sh, <<1, 0 - 1>>)} : sh \in Shapes}
FullShape == <<MaxChan, MaxFrames, MaxBins>>

RichSignals ==
  UNION {OneEdit(sh, bg, SigVals) :
           sh \in {x \in Shapes : x[2] = 1 \/ x = FullShape}, bg \in SigGrounds}
  \cup FewSignals \cup {ExampleXs}
RampSignals == {RampArr(sh, SigRamp) : sh \in Shapes}
FewMasks(sh) == {None, ConstArr(sh, 2)}
RichMasks(sh) ==
  (IF sh = FullShape THEN UNION {OneEdit(sh, bg, MaskVals) : bg \in MaskVals} ELSE {})
  \cup {RampArr(s2, MaskRamp) : s2 \in Shapes}

\* TDOAs in quarter frames, frame sizes (0 apart: it divides), angles
TdoaVecs == UNION {[1..n -> 0..3] : n \in 1..MaxChan}
FrameSizes == ((0 - 2)..MaxFrameSize) \ {0}
Angles == (0..3) \X (0..1)

NoStack == [src |-> "none", err |-> "ok", val |-> <<>>]

DefaultXs == ConstArr(<<1, 1, 1>>, <<1, 0>>)

\* Nothing called yet.  repeated records that some call was made again on
\* arguments it was already made on; a specification that does not follow
\* it starts it at TRUE.
InitOutputs(rep) ==
  /\ XXs = NoStack
  /\ eig = None
  /\ vs = None
  /\ R = None
  /\ repeated = rep

InitScm ==
  /\ \/ Xs \in RichSignals /\ Ms \in FewMasks(Shape3(Xs))
     \/ Xs \in RampSignals /\ Ms \in RichMasks(Shape3(Xs))
  /\ tdoas = <<0>> /\ frame_size = 2
  /\ yaw = <<0, 0>> /\ pitch = <<0, 0>> /\ roll = <<0, 0>>
  /\ InitOutputs(TRUE)

InitFree ==
  /\ Xs = DefaultXs /\ Ms = None
  /\ tdoas \in TdoaVecs /\ frame_size \in FrameSizes
  /\ yaw = <<0, 0>> /\ pitch = <<0, 0>> /\ roll = <<0, 0>>
  /\ InitOutputs(TRUE)

InitRot ==
  /\ Xs = DefaultXs /\ Ms = None
  /\ tdoas = <<0>> /\ frame_size = 2
  /\ yaw \in Angles /\ pitch \in Angles /\ roll \in Angles
  /\ InitOutputs(TRUE)

\* A smaller family of every kind, for the calls taken together
Init ==
  /\ \/ /\ Xs \in RampSignals
        /\ Ms \in {None, ConstArr(Shape3(Xs), 2), RampArr(Shape3(Xs), MaskRamp)}
        /\ tdoas = <<0>> /\ frame_size = 2
        /\ yaw = <<0, 0>> /\ pitch = <<0, 0>> /\ roll = <<0, 0>>
     \/ /\ Xs = DefaultXs /\ Ms = None
        /\ tdoas \in {t \in TdoaVecs : \A c \in 1..Len(t) : t[c] <= 1}
        /\ frame_size \in FrameSizes
        /\ yaw = <<0, 0>> /\ pitch = <<0, 0>> /\ roll = <<0, 0>>
     \/ /\ Xs = DefaultXs /\ Ms = None
        /\ tdoas = <<0>> /\ frame_size = 2
        /\ yaw \in {<<1, 0>>, <<1, 1>>} /\ pitch \in {<<0, 0>>, <<3, 0>>}
        /\ roll \in {<<0, 0>>, <<2, 1>>}
  /\ InitOutputs(FALSE)

(***************************************************************************)
(* The calls.                                                              *)
(***************************************************************************)
\* What the caller keeps of eigh's result and of the steering vectors when
\* it replaces the stack by nv: both belong to the stack they came from.
Kept(x, nv) == IF XXs.err = "ok" /\ XXs.src # "none" /\ XXs.val = nv THEN x ELSE None

ScmCall ==
  LET r == Scm(Xs, Ms) IN
  /\ Xs' = r.Xs
  /\ Ms' = r.Ms
  /\ XXs' = [src |-> "scm", err |-> r.err, val |-> r.val]
  /\ eig' = IF r.err = "ok" THEN Kept(eig, r.val) ELSE None
  /\ vs' = IF r.err = "ok" THEN Kept(vs, r.val) ELSE None
  /\ repeated' = (repeated \/ XXs.src = "scm")
  /\ UNCHANGED <<tdoas, frame_size, yaw, pitch, roll, R>>

FreefieldCall ==
  LET r == Freefield(tdoas, frame_size) IN
  /\ XXs' = [src |-> "freefield", err |-> "ok", val |-> r]
  /\ eig' = Kept(eig, r)
  /\ vs' = Kept(vs, r)
  /\ repeated' = (repeated \/ XXs.src = "freefield")
  /\ UNCHANGED <<Xs, Ms, tdoas, frame_size, yaw, pitch, roll, R>>

\* Every way of choosing one member of each set of a sequence of sets
RECURSIVE Choices(_)
Choices(sets) ==
  IF sets = <<>> THEN {<<>>}
  ELSE {<<h>> \o t : h \in Head(sets), t \in Choices(Tail(sets))}

RECURSIVE Product(_)
Product(ns) == IF ns = <<>> THEN 1 ELSE Head(ns) * Product(Tail(ns))

\* The stacks whose eigenvectors the model represents exactly, given the
\* candidates of each bin.
Representable(cands) ==
  /\ \A b \in 1..Len(cands) : cands[b] # {}
  /\ Product([b \in 1..Len(cands) |-> Cardinality(cands[b])]) <= MaxEigChoices

\* What np.linalg.eigh(XXs)[1][:, :, -1] may return: what it returned for
\* this stack before (LAPACK is a function), else any choice for each bin.
EighOf(XX, memo) ==
  IF memo # None THEN {memo[1]}
  ELSE LET cands == [b \in 1..Len(XX) |-> EighLast(XX[b])]
       IN  IF Representable(cands) THEN Choices(cands) ELSE {}

SteeringCall ==
  /\ XXs.src # "none"
  /\ XXs.err = "ok"
  /\ \E ev \in EighOf(XXs.val, eig) :
       LET r == Steering(XXs.val, ev) IN
       /\ vs' = Some(r.vs)
       /\ XXs' = [XXs EXCEPT !.val = r.XXs]
       /\ eig' = Some(ev)
  /\ repeated' = (repeated \/ vs # None)
  /\ UNCHANGED <<Xs, Ms, tdoas, frame_size, yaw, pitch, roll, R>>

RotmatCall ==
  /\ R' = Rotmat(yaw, pitch, roll)
  /\ repeated' = (repeated \/ R # None)
  /\ UNCHANGED <<Xs, Ms, tdoas, frame_size, yaw, pitch, roll, XXs, eig, vs>>

Next == ScmCall \/ FreefieldCall \/ SteeringCall \/ RotmatCall
NextScm == ScmCall \/ SteeringCall
NextFree == FreefieldCall \/ SteeringCall
NextRot == RotmatCall

Spec == Init /\ [][Next]_vars
SpecScm == InitScm /\ [][NextScm]_vars
SpecFree == InitFree /\ [][NextFree]_vars
SpecRot == InitRot /\ [][NextRot]_vars

(***************************************************************************)
(* Properties.                                                             *)
(***************************************************************************)
\* The mask is absent or has the shape of Xs.
MaskFits == Ms = None \/ Shape3(Ms) = Shape3(Xs)

\* The weight of entry (c, f, b): 1 when there is no mask.
Weight(c, f, b) == IF Ms = None THEN 1 ELSE Ms[c][f][b]

\* sum over frames 1..f of (X[i,f,b] M[i,f,b]) conj(X[j,f,b] M[j,f,b])
RECURSIVE FrameSum(_, _, _, _)
FrameSum(i, j, b, f) ==
  IF f = 0 THEN CZero
  ELSE CAdd(FrameSum(i, j, b, f - 1),
            CMul(CScale(Xs[i][f][b], Weight(i, f, b)),
                 CConj(CScale(Xs[j][f][b], Weight(j, f, b)))))

ScmDone == XXs.src = "scm"
FreeDone == XXs.src = "freefield"
ValidFrameSize == frame_size > 0 /\ frame_size % 2 = 0

\* 3x3 integer matrices
Mat3Mul(A, B) ==
  [i \in 1..3 |-> [j \in 1..3 |-> A[i][1] * B[1][j] + A[i][2] * B[2][j] + A[i][3] * B[3][j]]]
Mat3T(A) == [i \in 1..3 |-> [j \in 1..3 |-> A[j][i]]]
Mat3Det(A) ==
    A[1][1] * (A[2][2] * A[3][3] - A[2][3] * A[3][2])
  - A[1][2] * (A[2][1] * A[3][3] - A[2][3] * A[3][1])
  + A[1][3] * (A[2][1] * A[3][2] - A[2][2] * A[3][1])
Mat3Id(k) == [i \in 1..3 |-> [j \in 1..3 |-> IF i = j THEN k ELSE 0]]

\* 5 * Rz(a), 5 * Ry(a), 5 * Rx(a): the elementary rotations
Rz5(a) == << <<Cos5(a), 0 - Sin5(a), 0>>, <<Sin5(a), Cos5(a), 0>>, <<0, 0, 5>> >>
Ry5(a) == << <<Cos5(a), 0, Sin5(a)>>, <<0, 5, 0>>, <<0 - Sin5(a), 0, Cos5(a)>> >>
Rx5(a) == << <<5, 0, 0>>, <<0, Cos5(a), 0 - Sin5(a)>>, <<0, Sin5(a), Cos5(a)>> >>

\* C1: rotmat(yaw, pitch, roll) is the product Rz(yaw) Ry(pitch) Rx(roll)
\* (both sides times 125).
C1_RotmatIsZYX ==
  R # None => R = Mat3Mul(Mat3Mul(Rz5(yaw), Ry5(pitch)), Rx5(roll))

\* What the code computes instead: Rz(roll) Ry(pitch) Rx(yaw).
RotmatIsXYZOfSwapped ==
  R # None => R = Mat3Mul(Mat3Mul(Rz5(roll), Ry5(pitch)), Rx5(yaw))

\* C2: scm with a mask whose shape is not exactly the shape of Xs fails and
\* returns no correlation matrix.
C2_MaskShapeMismatchFails ==
  (ScmDone /\ ~MaskFits) => (XXs.err # "ok" /\ XXs.val = <<>>)

\* C3: with a mask of the shape of Xs, or none, scm returns XX of shape
\* [B, C, C] with XX[b][i][j] the sum over the frames of
\* (X[i,f,b] M[i,f,b]) conj(X[j,f,b] M[j,f,b]), not divided by the frame
\* count; two all-ones channels over 4 frames and 1 bin give [[4,4],[4,4]].
C3_ScmIsMaskedOuterSum ==
  (ScmDone /\ MaskFits) =>
    /\ XXs.err = "ok"
    /\ Len(XXs.val) = Len(Xs[1][1])
    /\ \A b \in 1..Len(Xs[1][1]) :
         /\ Len(XXs.val[b]) = Len(Xs)
         /\ \A i \in 1..Len(Xs) :
              /\ Len(XXs.val[b][i]) = Len(Xs)
              /\ \A j \in 1..Len(Xs) :
                   XXs.val[b][i][j] = FrameSum(i, j, b, Len(Xs[1]))
    /\ (Xs = ExampleXs /\ Ms = None =>
          XXs.val = << << <<<<4, 0>>, <<4, 0>>>>, <<<<4, 0>>, <<4, 0>>>> >> >>)

\* A masked call on at least two channels and two frames whose cross term
\* is not real.
C3_Witness ==
  /\ ScmDone /\ XXs.err = "ok" /\ Ms # None /\ MaskFits
  /\ Len(Xs) >= 2 /\ Len(Xs[1]) >= 2
  /\ \E f \in 1..Len(Xs[1]) : Ms[1][f][1] # Ms[2][f][1]
  /\ XXs.val[1][1][2][2] # 0

\* C4: every per-bin slice of scm's output is Hermitian, with a real and
\* non-negative diagonal.
C4_ScmHermitian ==
  (ScmDone /\ MaskFits) =>
    /\ XXs.err = "ok"
    /\ \A b \in 1..Len(XXs.val) : \A i \in 1..Len(Xs) :
         /\ \A j \in 1..Len(Xs) : XXs.val[b][i][j] = CConj(XXs.val[b][j][i])
         /\ XXs.val[b][i][i][2] = 0
         /\ XXs.val[b][i][i][1] >= 0

\* A masked call whose mask differs between the channels and whose
\* off-diagonal entry is not real.
C4_Witness ==
  /\ ScmDone /\ XXs.err = "ok" /\ Ms # None /\ MaskFits
  /\ Len(Xs) >= 2
  /\ Ms[1][1][1] # Ms[2][1][1]
  /\ XXs.val[1][2][1][2] # 0
  /\ XXs.val[1][1][1][1] > 0

\* A[k, c] = exp(-j 2 pi k tdoa[c] / N) for tdoa[c] = q N / 4: k q quarter turns
IdealPhase(k, c) == ExpNegJ(k * tdoas[c])

\* C5: for a positive even frame size N, freefield returns N/2 + 1 slices
\* with XX[k][i][j] = A[k,i] conj(A[k,j]); every diagonal entry is 1, every
\* slice is Hermitian and of rank 1, and a zero TDOA vector gives all ones.
C5_FreefieldIsOuterProduct ==
  (FreeDone /\ ValidFrameSize) =>
    /\ Len(XXs.val) = (frame_size \div 2) + 1
    /\ \A b \in 1..Len(XXs.val) :
         LET XX == XXs.val[b] IN
         /\ Len(XX) = Len(tdoas)
         /\ \A i \in 1..Len(tdoas) :
              /\ Len(XX[i]) = Len(tdoas)
              /\ XX[i][i] = COne
              /\ \A j \in 1..Len(tdoas) :
                   /\ XX[i][j] = CMul(IdealPhase(b - 1, i), CConj(IdealPhase(b - 1, j)))
                   /\ XX[i][j] = CConj(XX[j][i])
                   /\ \A k \in 1..Len(tdoas) : \A l \in 1..Len(tdoas) :
                        CMul(XX[i][j], XX[k][l]) = CMul(XX[i][l], XX[k][j])
                   /\ ((\A c \in 1..Len(tdoas) : tdoas[c] = 0) => XX[i][j] = COne)

\* Frame size 4, two channels a quarter frame apart: bin 1 holds j off the
\* diagonal and bin 2 holds -1.
C5_Witness ==
  /\ FreeDone /\ frame_size = 4 /\ tdoas = <<0, 1>>
  /\ XXs.val[2][1][2] = <<0, 1>>
  /\ XXs.val[3][1][2] = <<0 - 1, 0>>

\* C6: freefield with a frame size that is not a positive even integer fails
\* and returns no result.
C6_BadFrameSizeFails ==
  (FreeDone /\ ~ValidFrameSize) => (XXs.err # "ok" /\ XXs.val = <<>>)

\* C7: steering returns for every bin a vector whose first component has
\* imaginary part 0 and real part >= 0.
C7_FirstChannelPhaseZero ==
  vs # None =>
    \A b \in 1..Len(vs[1]) :
      LET z == vs[1][b][1] IN
      /\ z.g[2] = 0 /\ z.g[1] >= 0
      /\ z.n > 0 /\ z.d > 0

\* A stack of scm of which eigh returned, at some bin, an eigenvector whose
\* first component is 0, and at some bin one whose first component is not real.
C7_Witness ==
  /\ vs # None /\ ScmDone
  /\ \E b \in 1..Len(eig[1]) : eig[1][b][1].g = CZero /\ vs[1][b][1].g = CZero
  /\ \E b \in 1..Len(eig[1]) : eig[1][b][1].g[2] # 0 /\ vs[1][b][1].g # CZero

\* The steering vectors of a free-field stack are held for a valid frame size.
SteeredFree == vs # None /\ FreeDone /\ ValidFrameSize

\* exp(-j 2 pi k (tdoa[c] - tdoa[0]) / N) times sqrt(n/d)
Recovered(k, c, n, d) == Scaled(ExpNegJ(k * (tdoas[c] - tdoas[1])), n, d)

C9_RotmatIsRotation ==
  R # None =>
    /\ Mat3Mul(R, Mat3T(R)) = Mat3Id(125 * 125)
    /\ Mat3Det(R) = 125 * 125 * 125
    /\ (yaw[1] % 4 = 0 /\ yaw[2] = 0 /\ pitch[1] % 4 = 0 /\ pitch[2] = 0
        /\ roll[1] % 4 = 0 /\ roll[2] = 0 => R = Mat3Id(125))

\* Three angles off the axes.
C9_Witness ==
  R # None /\ yaw = <<1, 1>> /\ pitch = <<0, 1>> /\ roll = <<3, 1>>

\* C10: no call changes its arguments, and a call made again on the same
\* arguments returns what it returned: a step leaves Xs, Ms, tdoas,
\* frame_size and the angles; a step that does not replace the held stack by
\* one from the other source (steering, rotmat, scm or freefield once more)
\* leaves the stack; steering once more on the same stack leaves vs, and
\* rotmat once more leaves R.
C10_Pure ==
  [][ /\ args' = args
      /\ (XXs.src # "none" /\ XXs'.src = XXs.src => XXs' = XXs)
      /\ (vs # None /\ vs' # None => vs' = vs)
      /\ (R # None => R' = R) ]_vars

\* Every function has been called, scm with the default mask, and some call
\* has been made twice.
C10_Witness ==
  /\ repeated /\ ScmDone /\ Ms = None /\ Len(Xs) >= 2
  /\ vs # None /\ R # None

====
